---- MODULE Spec2Model ----
(***************************************************************************)
(* A model of bakkes-rcon: the RCON session client (client.py), argument   *)
(* quoting (util.py), the Quality ordering and the Certification model     *)
(* (inventory.py).                                                         *)
(*                                                                         *)
(* Python str values that are processed character by character are         *)
(* sequences of one-character strings; values that are only compared or    *)
(* concatenated are TLA+ strings.                                          *)
(***************************************************************************)
EXTENDS Integers, Sequences, FiniteSets, TLC

VARIABLES
    password,   \* BakkesRconClient.password: None or Some(str)
    ws,         \* BakkesRconClient.ws: NoWs (None) or the id of a handle
    conns,      \* every WebSocket handle opened so far, by id
    task,       \* each caller's coroutine: where it is suspended, what it returned
    qarg,       \* quote_arg: the argument
    qres,       \* quote_arg: the result, once computed
    perm,       \* a list of Quality members
    swaps,      \* how many transpositions produced perm
    sortedq,    \* sorted(perm), once computed
    ctype,      \* Certification.type
    cvalue,     \* Certification.value
    cert,       \* the constructed Certification, once constructed
    shown,      \* str(cert), once computed
    raw,        \* a raw item record of the ws_inventory response
    item,       \* InventoryItem.from_raw_item(raw), once decoded
    itemstr,    \* str(item), once computed
    ecls,       \* an enumeration class
    ea,         \* a member of ecls
    eb,         \* a member of ecls
    ecmp        \* ea compared with eb, once compared

clientVars == <<password, ws, conns, task>>
quoteVars == <<qarg, qres>>
qualityVars == <<perm, swaps, sortedq>>
certVars == <<ctype, cvalue, cert, shown>>
itemVars == <<raw, item, itemstr>>
enumVars == <<ecls, ea, eb, ecmp>>
vars == <<password, ws, conns, task, qarg, qres, perm, swaps, sortedq, ctype, cvalue, cert, shown,
          raw, item, itemstr, ecls, ea, eb, ecmp>>

-----------------------------------------------------------------------------
(* Bounds *)

\* WebSocket connections opened over the life of one client object
MaxConns == 2
\* frames sent on one connection
MaxFrames == 2
\* close() calls received by one handle
MaxCloses == 2
\* length of a quote_arg argument
MaxArgLen == 3
\* transpositions applied to a list of qualities before it is sorted
MaxSwaps == 3
\* the largest Certification.value (the largest threshold is 18000)
MaxCertValue == 18001

-----------------------------------------------------------------------------
(* Optional values: None is the empty tuple, Some(x) the one-element tuple *)

None == <<>>
Some(x) == <<x>>

\* no item is being decoded and no enumeration members are being compared
DecodeIdle ==
    /\ raw = None /\ item = None /\ itemstr = None
    /\ ecls = "none" /\ ea = None /\ eb = None /\ ecmp = None

-----------------------------------------------------------------------------
(* util.py *)

BACKSLASH == "\\"
DQUOTE == "\""
SPACE == " "

\* str.replace(old, new) for a one-character old: every occurrence, left to right
RECURSIVE replace(_, _, _)
replace(s, old, new) ==
    IF s = <<>> THEN <<>>
    ELSE (IF Head(s) = old THEN new ELSE <<Head(s)>>) \o replace(Tail(s), old, new)

\* the mutant: double quotes are escaped before backslashes
quote_arg_quotes_first(s) ==
    LET escaped == replace(replace(s, DQUOTE, <<BACKSLASH, DQUOTE>>),
                           BACKSLASH, <<BACKSLASH, BACKSLASH>>)
    IN  <<DQUOTE>> \o escaped \o <<DQUOTE>>

quote_arg(s) ==
    LET escaped == replace(replace(s, BACKSLASH, <<BACKSLASH, BACKSLASH>>),
                           DQUOTE, <<BACKSLASH, DQUOTE>>)
    IN  <<DQUOTE>> \o escaped \o <<DQUOTE>>

\* sep.join(parts)
RECURSIVE join(_, _)
join(sep, parts) ==
    IF parts = <<>> THEN <<>>
    ELSE IF Len(parts) = 1 THEN parts[1]
    ELSE parts[1] \o sep \o join(sep, Tail(parts))

-----------------------------------------------------------------------------
(* client.py: the command line of request() *)

RCON_PASSWORD == <<"r", "c", "o", "n", "_", "p", "a", "s", "s", "w", "o", "r", "d">>
WS_INVENTORY == <<"w", "s", "_", "i", "n", "v", "e", "n", "t", "o", "r", "y">>
JSON == <<"j", "s", "o", "n">>
AAAA == <<"a", "a", "a", "a">>

cmdline(cmd, args) ==
    join(<<SPACE>>, <<cmd>> \o [i \in 1..Len(args) |-> quote_arg(args[i])])

-----------------------------------------------------------------------------
(* The server and the WebSocket handles, as the client sees them *)

\* the password the server was started with
ServerPassword == <<"p", DQUOTE, "w">>
WrongPassword == <<"p", "w">>
Passwords == {None, Some(ServerPassword), Some(WrongPassword)}

\* what the server answers to a rejected rcon_password
AuthFailBodies == {"authno", "AUTHYES"}

RECURSIVE IsPrefix(_, _)
IsPrefix(p, s) ==
    \/ p = <<>>
    \/ /\ s # <<>>
       /\ Head(p) = Head(s)
       /\ IsPrefix(Tail(p), Tail(s))

\* the bodies the server may answer to a frame
server_bodies(frame) ==
    IF frame = RCON_PASSWORD \o <<SPACE>> \o <<DQUOTE>>
                 \o replace(replace(ServerPassword, BACKSLASH, <<BACKSLASH, BACKSLASH>>),
                            DQUOTE, <<BACKSLASH, DQUOTE>>)
                 \o <<DQUOTE>>
    THEN {"authyes"}
    ELSE IF IsPrefix(RCON_PASSWORD, frame) THEN AuthFailBodies
    ELSE {"data"}

\* a frame from the server: its text, and (for the record) which frame of the
\* connection it answers
Response(k, frame, body) == [seq |-> k, re |-> frame, body |-> body]
NoResponse == Response(0, <<>>, "none")

\* a handle as websockets.client.connect returns it
NewConn == [closes |-> 0, sent |-> <<>>, served |-> 0, inbox |-> <<>>]

NoWs == 0
Handles == 1..Len(conns)
IsOpen(cs, h) == cs[h].closes = 0

-----------------------------------------------------------------------------
(* client.py: BakkesRconClient *)

Callers == {"c1", "c2"}

\* a coroutine that has not been started
Idle == [pc |-> "idle", op |-> "none", h |-> NoWs, k |-> 0, out |-> "none",
         res |-> NoResponse]
\* a coroutine of operation op that has returned or raised: out is "ok" or the
\* exception, res the frame it returned
Done(op, h, k, out, res) ==
    [pc |-> "idle", op |-> op, h |-> h, k |-> k, out |-> out, res |-> res]
\* a coroutine of operation op suspended in recv() on handle h, after sending
\* the k-th frame of h
Receiving(op, h, k) ==
    [pc |-> "recv", op |-> op, h |-> h, k |-> k, out |-> "none", res |-> NoResponse]

\* the mutant: request() without the check of self.ws, so that None.send fails
request_send_unchecked(c, op, w, cs, cmd, args) ==
    IF w = NoWs
    THEN /\ conns' = cs
         /\ task' = [task EXCEPT ![c] = Done(op, w, 0, "AttributeError", NoResponse)]
    ELSE IF \E i \in 1..Len(args) : args[i] = None
    THEN /\ conns' = cs
         /\ task' = [task EXCEPT ![c] = Done(op, w, 0, "AttributeError", NoResponse)]
    ELSE IF ~ IsOpen(cs, w)
    THEN /\ conns' = cs
         /\ task' = [task EXCEPT ![c] = Done(op, w, 0, "ConnectionClosed", NoResponse)]
    ELSE /\ Len(cs[w].sent) < MaxFrames
         /\ conns' = [cs EXCEPT ![w].sent =
                         Append(@, cmdline(cmd, [i \in 1..Len(args) |-> args[i][1]]))]
         /\ task' = [task EXCEPT ![c] = Receiving(op, w, Len(cs[w].sent) + 1)]

\* the mutant: request() sends its command line twice
request_send_twice(c, op, w, cs, cmd, args) ==
    IF w = NoWs
    THEN /\ conns' = cs
         /\ task' = [task EXCEPT ![c] = Done(op, w, 0, "NotConnectedError", NoResponse)]
    ELSE IF \E i \in 1..Len(args) : args[i] = None
    THEN /\ conns' = cs
         /\ task' = [task EXCEPT ![c] = Done(op, w, 0, "AttributeError", NoResponse)]
    ELSE IF ~ IsOpen(cs, w)
    THEN /\ conns' = cs
         /\ task' = [task EXCEPT ![c] = Done(op, w, 0, "ConnectionClosed", NoResponse)]
    ELSE LET frame == cmdline(cmd, [i \in 1..Len(args) |-> args[i][1]])
         IN  /\ Len(cs[w].sent) + 1 < MaxFrames
             /\ conns' = [cs EXCEPT ![w].sent = Append(Append(@, frame), frame)]
             /\ task' = [task EXCEPT ![c] = Receiving(op, w, Len(cs[w].sent) + 1)]

\* the mutant: request() holds a lock for the whole exchange, so that a call waits
\* while the exchange of another coroutine is in flight
request_send_locked(c, op, w, cs, cmd, args) ==
    /\ \A d \in Callers \ {c} : task[d].pc # "recv"
    /\ IF w = NoWs
       THEN /\ conns' = cs
            /\ task' = [task EXCEPT ![c] = Done(op, w, 0, "NotConnectedError", NoResponse)]
       ELSE IF \E i \in 1..Len(args) : args[i] = None
       THEN /\ conns' = cs
            /\ task' = [task EXCEPT ![c] = Done(op, w, 0, "AttributeError", NoResponse)]
       ELSE IF ~ IsOpen(cs, w)
       THEN /\ conns' = cs
            /\ task' = [task EXCEPT ![c] = Done(op, w, 0, "ConnectionClosed", NoResponse)]
       ELSE /\ Len(cs[w].sent) < MaxFrames
            /\ conns' = [cs EXCEPT ![w].sent =
                            Append(@, cmdline(cmd, [i \in 1..Len(args) |-> args[i][1]]))]
            /\ task' = [task EXCEPT ![c] = Receiving(op, w, Len(cs[w].sent) + 1)]

\* request(), lines 63-67: from the call to the suspension in recv(). w is
\* self.ws and cs the handles when it is called; args are Some(str), or None
\* where the caller passes None.
request_send(c, op, w, cs, cmd, args) ==
    IF w = NoWs
    THEN /\ conns' = cs
         /\ task' = [task EXCEPT ![c] = Done(op, w, 0, "NotConnectedError", NoResponse)]
    ELSE IF \E i \in 1..Len(args) : args[i] = None
    THEN \* quote_arg(None): None has no replace()
         /\ conns' = cs
         /\ task' = [task EXCEPT ![c] = Done(op, w, 0, "AttributeError", NoResponse)]
    ELSE IF ~ IsOpen(cs, w)
    THEN \* send() on a closed handle raises
         /\ conns' = cs
         /\ task' = [task EXCEPT ![c] = Done(op, w, 0, "ConnectionClosed", NoResponse)]
    ELSE /\ Len(cs[w].sent) < MaxFrames
         /\ conns' = [cs EXCEPT ![w].sent =
                         Append(@, cmdline(cmd, [i \in 1..Len(args) |-> args[i][1]]))]
         /\ task' = [task EXCEPT ![c] = Receiving(op, w, Len(cs[w].sent) + 1)]

\* authenticate(), lines 72-75
auth_outcome(body) == IF body # "authyes" THEN "AuthenticationError" ELSE "ok"

\* the mutant: the open authenticates whatever the password is
aenter_authenticates_always(pw) == TRUE

\* __aenter__, line 53
aenter_authenticates(pw) == pw # None

\* __aenter__, connect() succeeds: lines 51-56, to the suspension in recv()
aenter(c) ==
    /\ task[c].pc = "idle"
    /\ Len(conns) < MaxConns
    /\ LET h == Len(conns) + 1
           cs == Append(conns, NewConn)
       IN  /\ ws' = h
           /\ IF aenter_authenticates(password)
              THEN request_send(c, "aenter", h, cs, RCON_PASSWORD, <<password>>)
              ELSE /\ conns' = cs
                   /\ task' = [task EXCEPT ![c] = Done("aenter", h, 0, "ok", NoResponse)]
    /\ UNCHANGED <<password, quoteVars, qualityVars, certVars, itemVars, enumVars>>

\* __aenter__, connect() raises: line 51
aenter_refused(c) ==
    /\ task[c].pc = "idle"
    /\ task' = [task EXCEPT ![c] = Done("aenter", NoWs, 0, "OSError", NoResponse)]
    /\ UNCHANGED <<password, ws, conns, quoteVars, qualityVars, certVars, itemVars, enumVars>>

\* __aexit__, lines 58-60
aexit(c) ==
    /\ task[c].pc = "idle"
    /\ IF ws # NoWs
       THEN /\ conns[ws].closes < MaxCloses
            /\ conns' = [conns EXCEPT ![ws].closes = @ + 1]
       ELSE UNCHANGED conns
    /\ task' = [task EXCEPT ![c] = Done("aexit", ws, 0, "ok", NoResponse)]
    /\ UNCHANGED <<password, ws, quoteVars, qualityVars, certVars, itemVars, enumVars>>

\* what callers pass to request(): get_raw_inventory's command (line 78), and a
\* command whose argument needs escaping
Requests == { <<WS_INVENTORY, <<Some(JSON), Some(AAAA)>>>>,
              <<<<"s", "a", "y">>, <<Some(<<DQUOTE, BACKSLASH>>)>>>> }

\* request(cmd, *args), lines 62-67
request(c, cmd, args) ==
    /\ task[c].pc = "idle"
    /\ request_send(c, "request", ws, conns, cmd, args)
    /\ UNCHANGED <<password, ws, quoteVars, qualityVars, certVars, itemVars, enumVars>>

\* authenticate() called by itself, line 71
authenticate(c) ==
    /\ task[c].pc = "idle"
    /\ request_send(c, "authenticate", ws, conns, RCON_PASSWORD, <<password>>)
    /\ UNCHANGED <<password, ws, quoteVars, qualityVars, certVars, itemVars, enumVars>>

\* the frame recv() returns: the oldest one not yet returned
recv_frame(inbox) == Head(inbox)

\* the frames left to later recv() calls
recv_rest(inbox) == Tail(inbox)

\* request(), line 68, and what the caller of request() does with the frame
\* (authenticate, lines 72-75; __aenter__, line 56)
recv(c) ==
    /\ task[c].pc = "recv"
    /\ conns[task[c].h].inbox # <<>>
    /\ LET h == task[c].h
           r == recv_frame(conns[h].inbox)
           out == IF task[c].op \in {"aenter", "authenticate"}
                  THEN auth_outcome(r.body) ELSE "ok"
       IN  /\ conns' = [conns EXCEPT ![h].inbox = recv_rest(@)]
           /\ task' = [task EXCEPT ![c] = Done(task[c].op, h, task[c].k, out, r)]
    /\ UNCHANGED <<password, ws, quoteVars, qualityVars, certVars, itemVars, enumVars>>

\* the server answers the oldest frame of connection h it has not answered
server(h) ==
    /\ IsOpen(conns, h)
    /\ conns[h].served < Len(conns[h].sent)
    /\ LET k == conns[h].served + 1
       IN  \E body \in server_bodies(conns[h].sent[k]) :
             conns' = [conns EXCEPT ![h].served = k,
                                    ![h].inbox = Append(@, Response(k, conns[h].sent[k], body))]
    /\ UNCHANGED <<password, ws, task, quoteVars, qualityVars, certVars, itemVars, enumVars>>

\* the caller of the sequential specification
MainCaller == "c1"

ClientInit ==
    /\ password \in Passwords
    /\ ws = NoWs
    /\ conns = <<>>
    /\ task = [c \in Callers |-> Idle]

PureIdle ==
    /\ qarg = <<>> /\ qres = None
    /\ perm = <<>> /\ swaps = 0 /\ sortedq = None
    /\ ctype = "none" /\ cvalue = 0 /\ cert = None /\ shown = None
    /\ DecodeIdle

Init == ClientInit /\ PureIdle

\* one caller, one operation at a time
Next ==
    \/ aenter(MainCaller)
    \/ aenter_refused(MainCaller)
    \/ aexit(MainCaller)
    \/ \E rq \in Requests : request(MainCaller, rq[1], rq[2])
    \/ authenticate(MainCaller)
    \/ recv(MainCaller)
    \/ \E h \in Handles : server(h)

Spec == Init /\ [][Next]_vars

-----------------------------------------------------------------------------
(* The client at rest, for the specifications of the pure functions *)

ClientIdle ==
    /\ password = None
    /\ ws = NoWs
    /\ conns = <<>>
    /\ task = [c \in Callers |-> Idle]

-----------------------------------------------------------------------------
(* util.py: quote_arg applied to every short string over Chars *)

Chars == {"a", SPACE, BACKSLASH, DQUOTE}

RECURSIVE Strings(_)
Strings(n) ==
    IF n = 0 THEN {<<>>}
    ELSE LET shorter == Strings(n - 1)
         IN  shorter \cup {Append(s, ch) : s \in shorter, ch \in Chars}

QuoteInit ==
    /\ ClientIdle
    /\ qarg \in Strings(MaxArgLen) /\ qres = None
    /\ perm = <<>> /\ swaps = 0 /\ sortedq = None
    /\ ctype = "none" /\ cvalue = 0 /\ cert = None /\ shown = None
    /\ DecodeIdle

quote ==
    /\ qres = None
    /\ qres' = Some(quote_arg(qarg))
    /\ UNCHANGED <<qarg, clientVars, qualityVars, certVars, itemVars, enumVars>>

QuoteNext == quote

SpecQuote == QuoteInit /\ [][QuoteNext]_vars

-----------------------------------------------------------------------------
(* inventory.py: Quality *)

QUALITY_ALT_NAMES == [BlackMarket |-> "Black market", VeryRare |-> "Very rare"]

\* the member values, in the order of the class body
QUALITY_DECL ==
    <<"Common",
      "Uncommon",
      "Rare",
      "Very rare",
      "Import",
      "Exotic",
      "Black market",
      "Premium",
      "Limited",
      "Legacy">>

Range(f) == {f[i] : i \in DOMAIN f}

\* QualityEnumMeta.__call__: the member of a value, "ValueError" if there is none
Quality(value) ==
    LET v == IF value \in DOMAIN QUALITY_ALT_NAMES THEN QUALITY_ALT_NAMES[value] ELSE value
    IN  IF v \in Range(QUALITY_DECL) THEN v ELSE "ValueError"

\* the members already in __members__ when the member of value q is initialised
members_before(q) ==
    LET at == CHOOSE i \in DOMAIN QUALITY_DECL : QUALITY_DECL[i] = q
    IN  {QUALITY_DECL[i] : i \in 1..(at - 1)}

\* the mutant: _sort_order_ is read off the finished class
sort_order_late(q) == Len(QUALITY_DECL)

\* Quality.__init__: _sort_order_
sort_order(q) == Cardinality(members_before(q))

\* Quality.__int__
int(q) == sort_order(q)

\* Quality.__lt__
lt(self, other) == int(self) < int(Quality(other))

\* sorted(): a stable insertion by __lt__
RECURSIVE insert(_, _)
insert(s, x) ==
    IF s = <<>> THEN <<x>>
    ELSE IF lt(x, s[Len(s)]) THEN Append(insert(SubSeq(s, 1, Len(s) - 1), x), s[Len(s)])
    ELSE Append(s, x)

RECURSIVE sorted(_)
sorted(l) ==
    IF l = <<>> THEN <<>>
    ELSE insert(sorted(SubSeq(l, 1, Len(l) - 1)), l[Len(l)])

\* reversed()
reversed(l) == [i \in 1..Len(l) |-> l[Len(l) + 1 - i]]

QualityInit ==
    /\ ClientIdle
    /\ qarg = <<>> /\ qres = None
    /\ perm \in {QUALITY_DECL, reversed(QUALITY_DECL)} /\ swaps = 0 /\ sortedq = None
    /\ ctype = "none" /\ cvalue = 0 /\ cert = None /\ shown = None
    /\ DecodeIdle

\* the caller exchanges two neighbours of the list
swap(i) ==
    /\ sortedq = None
    /\ swaps < MaxSwaps
    /\ perm' = [perm EXCEPT ![i] = perm[i + 1], ![i + 1] = perm[i]]
    /\ swaps' = swaps + 1
    /\ UNCHANGED <<sortedq, clientVars, quoteVars, certVars, itemVars, enumVars>>

\* the caller sorts the list
sort ==
    /\ sortedq = None
    /\ sortedq' = Some(sorted(perm))
    /\ UNCHANGED <<perm, swaps, clientVars, quoteVars, certVars, itemVars, enumVars>>

QualityNext ==
    \/ \E i \in 1..(Len(perm) - 1) : swap(i)
    \/ sort

SpecQuality == QualityInit /\ [][QualityNext]_vars

-----------------------------------------------------------------------------
(* inventory.py: Certification *)

CERTIFICATION_TAGS ==
    [ShotsOnGoal |-> "Striker",
     Clears |-> "Sweeper",
     Centers |-> "Tactician",
     BicycleGoals |-> "Acrobat",
     AerialGoals |-> "Aviator",
     Saves |-> "Goalkeeper",
     EpicSaves |-> "Guardian",
     Juggles |-> "Juggler",
     Assists |-> "Playmaker",
     Goals |-> "Scorer",
     BackwardsGoals |-> "Show-Off",
     LongGoals |-> "Sniper",
     TurtleGoals |-> "Turtle",
     MVPs |-> "Paragon",
     Wins |-> "Victor"]

LEVELS_STRIKER_TO_TACTICIAN == <<0, 50, 100, 200, 500, 1000, 2000, 5000, 10000, 18000>>
LEVELS_ACROBAT_TO_TURTLE == <<0, 25, 50, 100, 250, 500, 1000, 2500, 5000, 9000>>
LEVELS_PARAGON_VICTOR == <<0, 10, 25, 50, 125, 250, 500, 1250, 2500, 4500>>

CERTIFICATION_LEVELS ==
    [ShotsOnGoal |-> LEVELS_STRIKER_TO_TACTICIAN,
     Clears |-> LEVELS_STRIKER_TO_TACTICIAN,
     Centers |-> LEVELS_STRIKER_TO_TACTICIAN,
     BicycleGoals |-> LEVELS_ACROBAT_TO_TURTLE,
     AerialGoals |-> LEVELS_ACROBAT_TO_TURTLE,
     Saves |-> LEVELS_ACROBAT_TO_TURTLE,
     EpicSaves |-> LEVELS_ACROBAT_TO_TURTLE,
     Juggles |-> LEVELS_ACROBAT_TO_TURTLE,
     Assists |-> LEVELS_ACROBAT_TO_TURTLE,
     Goals |-> LEVELS_ACROBAT_TO_TURTLE,
     BackwardsGoals |-> LEVELS_ACROBAT_TO_TURTLE,
     LongGoals |-> LEVELS_ACROBAT_TO_TURTLE,
     TurtleGoals |-> LEVELS_ACROBAT_TO_TURTLE,
     MVPs |-> LEVELS_PARAGON_VICTOR,
     Wins |-> LEVELS_PARAGON_VICTOR]

LEVEL_NAMES_1_TO_5 == <<"Certified", "Capable", "Skillful", "Veteran", "Fantastic">>

CERTIFICATION_LEVEL_NAMES ==
    [ShotsOnGoal |->
        LEVEL_NAMES_1_TO_5 \o <<"Incredible", "Absurd", "Unreal", "Unrelenting", "Berserker">>,
     Clears |->
        LEVEL_NAMES_1_TO_5 \o <<"Ridiculous", "Unbelievable", "Preposterous", "Stupendous", "Chief Custodian">>,
     Centers |->
        LEVEL_NAMES_1_TO_5 \o <<"Ridiculous", "Unbelievable", "Preposterous", "Tremendous", "Master Planner">>,
     BicycleGoals |->
        LEVEL_NAMES_1_TO_5 \o <<"Ridiculous", "Unbelievable", "Preposterous", "Astounding", "Cyclist">>,
     AerialGoals |->
        LEVEL_NAMES_1_TO_5 \o <<"Ridiculous", "Unbelievable", "Preposterous", "Impenetrable", "Immovable Object">>,
     Saves |->
        LEVEL_NAMES_1_TO_5 \o <<"Ridiculous", "Unbelievable", "Preposterous", "Impenetrable", "Immovable Object">>,
     EpicSaves |->
        LEVEL_NAMES_1_TO_5 \o <<"Ridiculous", "Unbelievable", "Preposterous", "Gallant", "Guardian Angel">>,
     Juggles |->
        LEVEL_NAMES_1_TO_5 \o <<"Incredible", "Absurd", "Unreal", "Marvelous", "Magician">>,
     Assists |->
        LEVEL_NAMES_1_TO_5 \o <<"Incredible", "Absurd", "Unreal", "Psychic", "Unsung Hero">>,
     Goals |->
        LEVEL_NAMES_1_TO_5 \o <<"Incredible", "Absurd", "Unreal", "Supersonic", "Unstoppable Force">>,
     BackwardsGoals |->
        LEVEL_NAMES_1_TO_5 \o <<"Daring", "Relentless", "Exhausting", "Cheeky", "Total Showboat">>,
     LongGoals |->
        LEVEL_NAMES_1_TO_5 \o <<"Incredible", "Absurd", "Unreal", "Unforgiving", "Cold-Blooded">>,
     TurtleGoals |->
        LEVEL_NAMES_1_TO_5 \o <<"Ridiculous", "Unbelievable", "Reckless", "Timeless", "Turtle God">>,
     MVPs |->
        LEVEL_NAMES_1_TO_5 \o <<"Determined", "Stunning", "Wonderful", "Eternal", "The Most Valuable">>,
     Wins |->
        LEVEL_NAMES_1_TO_5 \o <<"Daring", "Relentless", "Fearless", "Valiant", "Unbeatable">>]

CertificationTypes == DOMAIN CERTIFICATION_TAGS

\* the mutant: a threshold is reached only when it is exceeded
reached_strictly(value, lower_bound) == value > lower_bound

\* __post_init__, line 167
reached(value, lower_bound) == value >= lower_bound

\* __post_init__, lines 164-168: the first index, from the last one down, whose
\* lower bound the value reaches; -1 where next() finds none (StopIteration)
RECURSIVE level_idx_from(_, _, _)
level_idx_from(levels, value, n) ==
    IF n < 0 THEN -1
    ELSE IF reached(value, levels[n + 1]) THEN n
    ELSE level_idx_from(levels, value, n - 1)

level_idx(type, value) ==
    level_idx_from(CERTIFICATION_LEVELS[type], value, Len(CERTIFICATION_LEVELS[type]) - 1)

\* Certification(type, value): the dataclass after __post_init__
Certification(type, value) ==
    LET idx == level_idx(type, value)
    IN  IF idx < 0 THEN [raised |-> "StopIteration"]
        ELSE [type |-> type, value |-> value, tag |-> CERTIFICATION_TAGS[type],
              level |-> idx + 1, level_name |-> CERTIFICATION_LEVEL_NAMES[type][idx + 1]]

\* the mutant: the tag is appended at every level
Certification_str_tagged(c) == c.level_name \o " " \o c.tag

\* Certification.__str__
Certification_str(c) ==
    IF c.level = 10 THEN c.level_name
    ELSE c.level_name \o " " \o c.tag

CertInit ==
    /\ ClientIdle
    /\ qarg = <<>> /\ qres = None
    /\ perm = <<>> /\ swaps = 0 /\ sortedq = None
    /\ ctype \in CertificationTypes /\ cvalue \in 0..MaxCertValue
    /\ cert = None /\ shown = None
    /\ DecodeIdle

construct ==
    /\ cert = None
    /\ cert' = Some(Certification(ctype, cvalue))
    /\ UNCHANGED <<ctype, cvalue, shown, clientVars, quoteVars, qualityVars, itemVars, enumVars>>

show ==
    /\ cert # None
    /\ shown = None
    /\ shown' = Some(Certification_str(cert[1]))
    /\ UNCHANGED <<ctype, cvalue, cert, clientVars, quoteVars, qualityVars, itemVars, enumVars>>

CertNext == construct \/ show

SpecCert == CertInit /\ [][CertNext]_vars

-----------------------------------------------------------------------------
(* The session client: claims C1-C6, under Spec *)

\* caller c completes an operation op in this step, without suspending
Returns(c, op) ==
    /\ task[c].pc = "idle"
    /\ task'[c] # task[c]
    /\ task'[c].pc = "idle"
    /\ task'[c].op = op

\* caller c has completed op, and nothing since
Completed(c, op) == task[c].pc = "idle" /\ task[c].op = op

\* C1: request() on a client that was never connected raises NotConnectedError,
\* sends no frame on any transport and leaves the client as it was.
C1_NotConnected ==
    /\ [](\A c \in Callers :
            (conns = <<>> /\ Completed(c, "request"))
                => (task[c].out = "NotConnectedError" /\ ws = NoWs))
    /\ [][\A c \in Callers :
            (conns = <<>> /\ Returns(c, "request"))
                => (/\ task'[c].out = "NotConnectedError"
                    /\ UNCHANGED <<password, ws, conns>>)]_vars

C1_Witness ==
    /\ conns = <<>>
    /\ Completed("c1", "request")
    /\ task["c1"].out = "NotConnectedError"

\* the state in which request() sends commands: it holds an open handle
Ready == ws # NoWs /\ IsOpen(conns, ws)

\* C2: with a password configured, a reply to rcon_password other than
\* "authyes" makes authentication raise AuthenticationError, and afterwards the
\* session is not Ready: request() does not send as on an authenticated session.
C2_AuthFailureNotReady ==
    \A c \in Callers :
        (task[c].pc = "idle" /\ task[c].op \in {"aenter", "authenticate"}
            /\ task[c].res # NoResponse)
        => /\ (task[c].res.body # "authyes" <=> task[c].out = "AuthenticationError")
           /\ (task[c].out = "AuthenticationError" => ~ Ready)

\* C3: every handle the session opens is closed exactly once: none is closed
\* twice, and the handle of an open that failed during authentication, like the
\* handle of a session that was closed, is closed.
C3_ClosedExactlyOnce ==
    \A h \in Handles :
        /\ conns[h].closes <= 1
        /\ \A c \in Callers :
             (task[c].pc = "idle" /\ task[c].h = h
                /\ \/ task[c].op = "aexit"
                   \/ task[c].op = "aenter" /\ task[c].out = "AuthenticationError")
             => conns[h].closes = 1

\* C4: after close() has completed, and until a fresh connect(), request()
\* raises NotConnectedError as on a client that was never connected.
C4_CloseDisconnects ==
    [][\A c \in Callers :
         (ws # NoWs /\ ~ IsOpen(conns, ws) /\ Returns(c, "request"))
            => task'[c].out = "NotConnectedError"]_vars

\* C5: the open authenticates exactly when a password is configured. With a
\* password the first frame of the new connection is rcon_password with the
\* quoted password and the open is still suspended; it completes only with the
\* reply "authyes". With no password the open sends nothing and completes at
\* once, leaving the session Ready.
C5_OpenAuthenticates ==
    /\ [][Len(conns') > Len(conns) =>
            LET h == Len(conns')
            IN  /\ ws' = h
                /\ IF password = None
                   THEN /\ conns'[h].sent = <<>>
                        /\ \E c \in Callers :
                             task'[c] = Done("aenter", h, 0, "ok", NoResponse)
                        /\ Ready'
                   ELSE /\ conns'[h].sent =
                             <<RCON_PASSWORD \o <<SPACE>> \o quote_arg(password[1])>>
                        /\ \E c \in Callers : task'[c] = Receiving("aenter", h, 1)]_vars
    /\ [](\A c \in Callers :
            (Completed(c, "aenter") /\ task[c].out = "ok" /\ password # None)
                => (task[c].res.body = "authyes" /\ task[c].res.seq = 1))
    /\ [](\A c \in Callers :
            (Completed(c, "aenter") /\ task[c].out = "ok" /\ password = None)
                => task[c].res = NoResponse)

C5_Witness ==
    /\ password # None
    /\ Completed("c1", "aenter")
    /\ task["c1"].out = "ok"
    /\ task["c1"].res.body = "authyes"

\* C6: with one caller at a time, each request() sends exactly one frame and
\* returns exactly one received frame, and the request that sent the k-th frame
\* of the connection returns the server's k-th response, the one to its command.
C6_OneFrameEach ==
    /\ [](\A c \in Callers :
            (Completed(c, "request") /\ task[c].out = "ok")
                => /\ task[c].res.seq = task[c].k
                   /\ task[c].res.re = conns[task[c].h].sent[task[c].k])
    /\ [][\A c \in Callers :
            (task[c].pc = "idle" /\ task'[c].pc = "recv" /\ task'[c].op = "request")
                => /\ Len(conns') = Len(conns)
                   /\ \A h \in Handles :
                        /\ conns'[h].inbox = conns[h].inbox
                        /\ conns'[h].sent =
                             IF h = ws
                             THEN Append(conns[h].sent, conns'[h].sent[task'[c].k])
                             ELSE conns[h].sent]_vars
    /\ [][\A c \in Callers :
            (task[c].pc = "recv" /\ task[c].op = "request" /\ task'[c].pc = "idle")
                => /\ Len(conns') = Len(conns)
                   /\ \A h \in Handles :
                        /\ conns'[h].sent = conns[h].sent
                        /\ conns[h].inbox =
                             IF h = task[c].h
                             THEN <<task'[c].res>> \o conns'[h].inbox
                             ELSE conns'[h].inbox]_vars

C6_Witness ==
    /\ Completed("c1", "request")
    /\ task["c1"].out = "ok"
    /\ task["c1"].k = 2
    /\ task["c1"].res.seq = 2

-----------------------------------------------------------------------------
(* quote_arg: claim C7, under SpecQuote *)

\* every backslash of s starts a pair with a backslash or a double quote, and
\* no double quote stands outside such a pair
RECURSIVE well_escaped(_)
well_escaped(s) ==
    IF s = <<>> THEN TRUE
    ELSE IF Head(s) = BACKSLASH
    THEN /\ Len(s) >= 2
         /\ s[2] \in {BACKSLASH, DQUOTE}
         /\ well_escaped(SubSeq(s, 3, Len(s)))
    ELSE Head(s) # DQUOTE /\ well_escaped(Tail(s))

\* s with every escape pair replaced by the character it escapes
RECURSIVE unescape(_)
unescape(s) ==
    IF s = <<>> THEN <<>>
    ELSE IF Head(s) = BACKSLASH /\ Len(s) >= 2
    THEN <<s[2]>> \o unescape(SubSeq(s, 3, Len(s)))
    ELSE <<Head(s)>> \o unescape(Tail(s))

count(s, ch) == Cardinality({i \in DOMAIN s : s[i] = ch})

\* C7: quote_arg(s) starts and ends with a double quote; between them every
\* backslash and double quote of s is backslash-escaped, once; no unescaped
\* double quote occurs; and undoing the escapes gives back s.
C7_QuoteArgSingleToken ==
    qres # None =>
        LET q == qres[1]
            inner == SubSeq(q, 2, Len(q) - 1)
        IN  /\ Len(q) >= 2
            /\ q[1] = DQUOTE
            /\ q[Len(q)] = DQUOTE
            /\ well_escaped(inner)
            /\ unescape(inner) = qarg
            /\ Len(inner) = Len(qarg) + count(qarg, BACKSLASH) + count(qarg, DQUOTE)

C7_Witness ==
    /\ qarg = <<DQUOTE, BACKSLASH>>
    /\ qres = Some(<<DQUOTE, BACKSLASH, DQUOTE, BACKSLASH, BACKSLASH, DQUOTE>>)

-----------------------------------------------------------------------------
(* Quality: claim C8, under SpecQuality *)

\* the order the tests expect (test_inventory.py, lines 11-22 and 33-44)
ExpectedOrder ==
    <<"Common", "Uncommon", "Rare", "Very rare", "Import", "Exotic",
      "Black market", "Premium", "Limited", "Legacy">>

PlaceIn(seq, v) == CHOOSE i \in DOMAIN seq : seq[i] = v

\* C8: a < b exactly when a comes before b in Common, Uncommon, Rare, Very rare,
\* Import, Exotic, Black market, Premium, Limited, Legacy; sorting a permutation
\* of the ten values gives that sequence; and int() gives 0..9 in that order.
C8_QualityOrder ==
    /\ \A i, j \in DOMAIN perm :
          lt(perm[i], perm[j])
              <=> PlaceIn(ExpectedOrder, perm[i]) < PlaceIn(ExpectedOrder, perm[j])
    /\ \A i \in DOMAIN perm : int(perm[i]) = PlaceIn(ExpectedOrder, perm[i]) - 1
    /\ sortedq # None => sortedq[1] = ExpectedOrder

C8_Witness ==
    /\ sortedq = Some(ExpectedOrder)
    /\ swaps > 0
    /\ perm[1] = "Legacy"
    /\ perm[Len(perm)] = "Uncommon"

-----------------------------------------------------------------------------
(* Certification: claims C9 and C10, under SpecCert *)

\* C9: for every type and value >= 0 the level is in 1..10 and is 1 + the index
\* of the largest threshold of the type's table that is <= value; so the level
\* never decreases as value increases, a value equal to a threshold has that
\* threshold's level, and a value one less than a threshold the level before.
C9_LevelByThreshold ==
    cert # None =>
        LET c == cert[1]
            T == CERTIFICATION_LEVELS[ctype]
            below == {i \in DOMAIN T : T[i] <= cvalue}
        IN  /\ "level" \in DOMAIN c
            /\ c.level \in 1..10
            /\ below # {}
            /\ c.level = CHOOSE i \in below : \A j \in below : T[j] <= T[i]
            /\ "level" \in DOMAIN Certification(ctype, cvalue + 1)
            /\ c.level <= Certification(ctype, cvalue + 1).level
            /\ \A i \in DOMAIN T :
                  /\ cvalue = T[i] => c.level = i
                  /\ (cvalue + 1 = T[i]) => c.level = i - 1

C9_Witness ==
    /\ cert # None
    /\ ctype = "ShotsOnGoal"
    /\ cvalue = 17999
    /\ cert[1].level = 9

\* C10: str(certification) is "{level_name} {tag}" at levels 1..9 and level_name
\* alone at level 10; Certification(SAVES, 9000) has level 10 and shows as
\* "Immovable Object"; Certification(GOALS, 0) has level 1 and shows as
\* "Certified Scorer".
C10_CertificationDisplay ==
    shown # None =>
        LET c == cert[1]
        IN  /\ c.level \in 1..9 => shown[1] = c.level_name \o " " \o c.tag
            /\ c.level = 10 => shown[1] = c.level_name
            /\ (ctype = "Saves" /\ cvalue = 9000)
                  => (c.level = 10 /\ shown[1] = "Immovable Object")
            /\ (ctype = "Goals" /\ cvalue = 0)
                  => (c.level = 1 /\ shown[1] = "Certified Scorer")

C10_Witness ==
    /\ ctype = "Saves"
    /\ cvalue = 9000
    /\ shown = Some("Immovable Object")

-----------------------------------------------------------------------------
(* enums.py: PrettyStrEnum, and the enumerations of inventory.py *)

\* the member values, in the order of each class body
SLOT_DECL ==
    <<"Animated Decal", "Antenna", "Avatar Border", "Body",
      "Crate", "Decal", "Engine Audio", "Goal Explosion",
      "Paint Finish", "Player Anthem", "Player Banner", "Player Title",
      "Rocket Boost", "Topper", "Trail", "Wheels">>

PAINT_DECL ==
    <<"Black", "Burnt Sienna", "Cobalt", "Crimson",
      "Forest Green", "Grey", "Lime", "Orange",
      "Pink", "Purple", "Saffron", "Sky Blue",
      "Titanium White">>

CERTIFICATION_TYPE_DECL ==
    <<"AerialGoals", "Assists", "BackwardsGoals", "BicycleGoals",
      "Centers", "Clears", "EpicSaves", "Goals",
      "Juggles", "LongGoals", "MVPs", "Saves",
      "ShotsOnGoal", "TurtleGoals", "Wins">>

\* the second element of a member's declaration, where the class body gives one
CERTIFICATION_TYPE_PRETTY ==
    [AerialGoals |-> "Aerial Goals", Assists |-> "Assists",
     BackwardsGoals |-> "Backwards Goals", BicycleGoals |-> "Bicycle Goals",
     Centers |-> "Centers", Clears |-> "Clears", EpicSaves |-> "Epic Saves",
     Goals |-> "Goals", Juggles |-> "Juggles", LongGoals |-> "Long Goals",
     MVPs |-> "MVPs", Saves |-> "Saves", ShotsOnGoal |-> "Shots on Goal",
     TurtleGoals |-> "Turtle Goals", Wins |-> "Wins"]

SPECIAL_EDITION_DECL ==
    <<"Edition_Inverted", "Edition_Holographic", "Edition_Infinite">>

EnumClasses == {"Quality", "Slot", "Paint", "CertificationType", "SpecialEdition"}

EnumDecl(cls) ==
    CASE cls = "Quality" -> QUALITY_DECL
      [] cls = "Slot" -> SLOT_DECL
      [] cls = "Paint" -> PAINT_DECL
      [] cls = "CertificationType" -> CERTIFICATION_TYPE_DECL
      [] cls = "SpecialEdition" -> SPECIAL_EDITION_DECL

\* str.title() on the member values: every value but these two is already in title case
title(value) ==
    CASE value = "Very rare" -> "Very Rare"
      [] value = "Black market" -> "Black Market"
      [] OTHER -> value

\* value.removeprefix('Edition_') on the member values of SpecialEdition
removeprefix_Edition(value) ==
    CASE value = "Edition_Inverted" -> "Inverted"
      [] value = "Edition_Holographic" -> "Holographic"
      [] value = "Edition_Infinite" -> "Infinite"
      [] OTHER -> value

\* cls._prettify_value(value): SpecialEdition overrides it
prettify_value(cls, value) ==
    IF cls = "SpecialEdition" THEN removeprefix_Edition(value) ELSE title(value)

\* the mutant: the member's str content is its value
PrettyStrEnum_new_valued(cls, value, pretty) ==
    [cls |-> cls, value |-> value,
     pretty |-> IF pretty = None THEN prettify_value(cls, value) ELSE pretty[1],
     str |-> value]

\* PrettyStrEnum.__new__: str.__new__(cls) is called without the value, so the
\* content of the str object is empty; the value goes to _value_ only
PrettyStrEnum_new(cls, value, pretty) ==
    [cls |-> cls, value |-> value,
     pretty |-> IF pretty = None THEN prettify_value(cls, value) ELSE pretty[1],
     str |-> ""]

\* the member the class body makes for a value
member(cls, value) ==
    PrettyStrEnum_new(cls, value,
        IF cls = "CertificationType" THEN Some(CERTIFICATION_TYPE_PRETTY[value]) ELSE None)

Members(cls) == {member(cls, v) : v \in Range(EnumDecl(cls))}

\* cls(value): the member of a value; Quality looks alternate names up first
enum_call(cls, value) ==
    LET v == IF cls = "Quality" THEN Quality(value)
             ELSE IF value \in Range(EnumDecl(cls)) THEN value ELSE "ValueError"
    IN  IF v = "ValueError" THEN [raised |-> "ValueError"] ELSE member(cls, v)

\* StrEnum.__str__
StrEnum_str(m) == m.value

\* StrEnum.__hash__
StrEnum_hash(m) == m.value

\* str.__eq__, which the enumerations inherit: the str contents are compared
str_eq(a, b) == a.str = b.str

\* bool(m): str.__len__ of the content
str_bool(m) == m.str # ""

-----------------------------------------------------------------------------
(* inventory.py: InventoryItem *)

transform_raw_optional_str(s) == IF s = "none" THEN None ELSE Some(s)

\* the mutant: every token but 'false' is true
transform_raw_bool_unless_false(s) == IF s = "false" THEN FALSE ELSE TRUE

transform_raw_bool(s) == IF s = "true" THEN TRUE ELSE FALSE

\* n or None
none_if_zero(n) == IF n # 0 THEN Some(n) ELSE None

\* s or None
none_if_empty(s) == IF s # "" THEN Some(s) ELSE None

\* the transform RAW_ITEM_TRANSFORMS names for each field, applied to the record
RAW_ITEM_TRANSFORMS(attrs) ==
    [attrs EXCEPT !.paint = transform_raw_optional_str(@),
                  !.certification = transform_raw_optional_str(@),
                  !.rank_label = transform_raw_optional_str(@),
                  !.crate = none_if_empty(@),
                  !.special_edition = transform_raw_optional_str(@),
                  !.blueprint_item_id = none_if_zero(@),
                  !.blueprint_item = none_if_empty(@),
                  !.blueprint_cost = none_if_zero(@),
                  !.tradeable = transform_raw_bool(@)]

\* a constructor argument that is a str becomes the member of cls; None stays None
optional_member(cls, arg) ==
    IF arg = None THEN None ELSE Some(enum_call(cls, arg[1]))

Raised(x) == "raised" \in DOMAIN x

\* InventoryItem.__init__: the object, or the exception a conversion raises
InventoryItem(a) ==
    LET slot == enum_call("Slot", a.slot)
        paint == optional_member("Paint", a.paint)
        certification_type == optional_member("CertificationType", a.certification)
        certification ==
            IF certification_type = None \/ Raised(certification_type[1]) THEN certification_type
            ELSE Some(Certification(certification_type[1].value, a.certification_value))
        quality == enum_call("Quality", a.quality)
        special_edition == optional_member("SpecialEdition", a.special_edition)
        failed(x) == x # None /\ Raised(x[1])
    IN  IF Raised(slot) THEN slot
        ELSE IF failed(paint) THEN paint[1]
        ELSE IF failed(certification) THEN certification[1]
        ELSE IF Raised(quality) THEN quality
        ELSE IF failed(special_edition) THEN special_edition[1]
        ELSE [product_id |-> a.product_id,
              name |-> a.name,
              slot |-> slot,
              paint |-> paint,
              certification |-> certification,
              certification_value |-> a.certification_value,
              rank_label |-> a.rank_label,
              quality |-> quality,
              crate |-> a.crate,
              amount |-> a.amount,
              instance_id |-> a.instance_id,
              special_edition |-> special_edition,
              blueprint_item_id |-> a.blueprint_item_id,
              blueprint_item |-> a.blueprint_item,
              blueprint_cost |-> a.blueprint_cost,
              tradeable |-> a.tradeable]

from_raw_item(r) == InventoryItem(RAW_ITEM_TRANSFORMS(r))

\* blueprint_item or name
item_name(self) ==
    IF self.blueprint_item # None /\ self.blueprint_item[1] # "" THEN self.blueprint_item[1]
    ELSE self.name

\* Certification.full_str
full_str(c) ==
    Certification_str(c) \o ": " \o ToString(c.value) \o " "
        \o member("CertificationType", c.type).pretty

\* the bracketed labels of the tags that pass "if tag"
RECURSIVE tag_components(_)
tag_components(tags) ==
    IF tags = <<>> THEN <<>>
    ELSE LET tag == Head(tags)
         IN  (IF tag # None /\ str_bool(tag[1]) THEN <<"[" \o tag[1].pretty \o "]">> ELSE <<>>)
                 \o tag_components(Tail(tags))

\* InventoryItem.__str__
InventoryItem_str(self) ==
    LET components ==
            <<StrEnum_str(self.slot) \o ":", item_name(self), "[" \o self.quality.pretty \o "]">>
                \o tag_components(<<self.paint, self.special_edition>>)
                \o (IF self.certification # None
                    THEN <<"[" \o full_str(self.certification[1]) \o "]">> ELSE <<>>)
    IN  join(" ", components)

\* the raw records the decoding is run on: each sentinel and a value beside it,
\* both spellings of a quality, a paint no member has, three tradeable tokens
RawItems ==
    [product_id : {23},
     name : {"Octane"},
     slot : {"Body", "Wheels"},
     paint : {"none", "Black", "Titanium White", "Gold"},
     certification : {"none", "Saves"},
     certification_value : {0, 9000},
     rank_label : {"none", "Goalkeeper"},
     quality : {"Common", "VeryRare", "Black market"},
     crate : {"", "Crate1"},
     amount : {1},
     instance_id : {7},
     special_edition : {"none", "Edition_Inverted"},
     blueprint_item_id : {0, 5},
     blueprint_item : {"", "Fennec"},
     blueprint_cost : {0, 500},
     tradeable : {"true", "false", "True"}]

EnumIdle == ecls = "none" /\ ea = None /\ eb = None /\ ecmp = None

ItemInit ==
    /\ ClientIdle
    /\ qarg = <<>> /\ qres = None
    /\ perm = <<>> /\ swaps = 0 /\ sortedq = None
    /\ ctype = "none" /\ cvalue = 0 /\ cert = None /\ shown = None
    /\ raw \in {Some(r) : r \in RawItems}
    /\ item = None /\ itemstr = None
    /\ EnumIdle

\* InventoryItem.from_raw_item(raw)
decode ==
    /\ raw # None
    /\ item = None
    /\ item' = Some(from_raw_item(raw[1]))
    /\ UNCHANGED <<raw, itemstr, clientVars, quoteVars, qualityVars, certVars, enumVars>>

\* str(item)
display ==
    /\ item # None
    /\ ~Raised(item[1])
    /\ itemstr = None
    /\ itemstr' = Some(InventoryItem_str(item[1]))
    /\ UNCHANGED <<raw, item, clientVars, quoteVars, qualityVars, certVars, enumVars>>

ItemNext == decode \/ display

SpecItem == ItemInit /\ [][ItemNext]_vars

-----------------------------------------------------------------------------
(* C11: decoding a raw record *)

\* an item has been decoded from raw without an exception
Decoded == raw # None /\ item # None /\ ~Raised(item[1])

\* field f of the decoded item is absent exactly for the sentinel, and holds the raw value otherwise
SentinelField(f, sentinel) ==
    IF raw[1][f] = sentinel THEN item[1][f] = None ELSE item[1][f] = Some(raw[1][f])

\* the enumeration-typed optional field f is absent exactly for 'none', and otherwise
\* the member whose wire value is the raw string
SentinelMember(f) ==
    IF raw[1][f] = "none" THEN item[1][f] = None
    ELSE item[1][f] # None /\ item[1][f][1].value = raw[1][f]

\* what the statement says of the sentinel fields, of tradeable and of certification
SentinelsNormalized ==
    /\ SentinelMember("paint")
    /\ SentinelMember("special_edition")
    /\ SentinelField("rank_label", "none")
    /\ SentinelField("blueprint_item_id", 0)
    /\ SentinelField("blueprint_cost", 0)
    /\ SentinelField("crate", "")
    /\ SentinelField("blueprint_item", "")
    /\ item[1].tradeable = (raw[1].tradeable = "true")
    /\ IF raw[1].certification = "none" THEN item[1].certification = None
       ELSE /\ item[1].certification # None
            /\ item[1].certification[1] =
                   Certification(raw[1].certification, raw[1].certification_value)

\* the fields no transform is registered for, quality aside
OthersUnchanged ==
    /\ item[1].product_id = raw[1].product_id
    /\ item[1].name = raw[1].name
    /\ item[1].slot.value = raw[1].slot
    /\ item[1].certification_value = raw[1].certification_value
    /\ item[1].amount = raw[1].amount
    /\ item[1].instance_id = raw[1].instance_id

\* C11 as stated: decoding normalizes exactly the sentinel fields ('none', 0, '' become
\* absent; tradeable is true exactly for 'true'; certification is built exactly when the
\* type is not 'none') and leaves every other field's value, quality included, unchanged
C11_OnlySentinelsChange ==
    Decoded => /\ SentinelsNormalized
               /\ OthersUnchanged
               /\ item[1].quality.value = raw[1].quality

\* C11 amended: as above, except that quality is the member the alternate-name table
\* leads to: 'VeryRare' and 'BlackMarket' decode to 'Very rare' and 'Black market'
C11_SentinelsAndQualityAlias ==
    Decoded => /\ SentinelsNormalized
               /\ OthersUnchanged
               /\ item[1].quality.value =
                      (CASE raw[1].quality = "VeryRare" -> "Very rare"
                         [] raw[1].quality = "BlackMarket" -> "Black market"
                         [] OTHER -> raw[1].quality)

\* a record with sentinels and non-sentinels, an odd tradeable token and an
\* alternate quality name has been decoded
C11_Witness ==
    /\ Decoded
    /\ raw[1].paint = "none" /\ item[1].paint = None
    /\ raw[1].special_edition = "Edition_Inverted"
    /\ raw[1].certification = "Saves" /\ item[1].certification # None
    /\ raw[1].blueprint_item_id = 0 /\ item[1].blueprint_item_id = None
    /\ raw[1].blueprint_cost = 500
    /\ raw[1].crate = "" /\ raw[1].blueprint_item = "Fennec"
    /\ raw[1].tradeable = "True" /\ item[1].tradeable = FALSE
    /\ raw[1].quality = "VeryRare"

-----------------------------------------------------------------------------
(* C12: the display string of an item *)

\* '[label]' of an optional member when it is present, nothing otherwise
LabelIfPresent(tag) == IF tag # None THEN <<"[" \o tag[1].pretty \o "]">> ELSE <<>>

\* the display string the statement describes
DescribedDisplay(it) ==
    join(" ", <<it.slot.value \o ":", item_name(it), "[" \o it.quality.pretty \o "]">>
                  \o LabelIfPresent(it.paint)
                  \o LabelIfPresent(it.special_edition)
                  \o (IF it.certification # None
                      THEN <<"[" \o full_str(it.certification[1]) \o "]">> ELSE <<>>))

\* C12: the display string is '{slot}: {item_name} [{quality.pretty}]', then
\* '[{paint.pretty}]' whenever paint is present, then '[{special_edition.pretty}]'
\* whenever special_edition is present, then the bracketed full certification
\* description whenever the item is certified, joined by single spaces
C12_DisplayShowsTags ==
    (Decoded /\ itemstr # None) => itemstr[1] = DescribedDisplay(item[1])

-----------------------------------------------------------------------------
(* enums.py: comparing and keying members *)

\* a is b: the members of an enumeration are singletons
is(a, b) == a.cls = b.cls /\ a.value = b.value

\* a == b, a != b: StrEnum defines neither, str.__eq__ and str.__ne__ apply
eq(a, b) == str_eq(a, b)

ne(a, b) == ~str_eq(a, b)

\* a in (b,), and the key test of dict and set once the hashes agree: identity, then ==
contains(a, b) == is(a, b) \/ eq(a, b)

\* d[a] finds the entry stored under b
same_key(a, b) == StrEnum_hash(a) = StrEnum_hash(b) /\ contains(a, b)

\* str.__gt__, str.__le__, str.__ge__ on the contents of two members: the order of
\* code points, which puts the empty string first; two non-empty contents that
\* differ do not occur among members
str_gt(a, b) == a.str # b.str /\ b.str = ""

str_le(a, b) == a.str = b.str \/ a.str = ""

str_ge(a, b) == a.str = b.str \/ b.str = ""

EnumInit ==
    /\ ClientIdle
    /\ qarg = <<>> /\ qres = None
    /\ perm = <<>> /\ swaps = 0 /\ sortedq = None
    /\ ctype = "none" /\ cvalue = 0 /\ cert = None /\ shown = None
    /\ raw = None /\ item = None /\ itemstr = None
    /\ ecls \in EnumClasses
    /\ ea \in {Some(m) : m \in Members(ecls)}
    /\ eb \in {Some(m) : m \in Members(ecls)}
    /\ ecmp = None

\* a == b, a != b, hash(a) == hash(b), a in (b,), {b: ...}[a]
compare ==
    /\ ea # None /\ eb # None
    /\ ecmp = None
    /\ ecmp' = Some([op |-> "compare",
                     eq |-> eq(ea[1], eb[1]),
                     ne |-> ne(ea[1], eb[1]),
                     hash_eq |-> StrEnum_hash(ea[1]) = StrEnum_hash(eb[1]),
                     contains |-> contains(ea[1], eb[1]),
                     same_key |-> same_key(ea[1], eb[1])])
    /\ UNCHANGED <<ecls, ea, eb, clientVars, quoteVars, qualityVars, certVars, itemVars>>

\* a < b, a > b, a <= b, a >= b on two Quality members: Quality defines __lt__ only,
\* and total_ordering adds no operator that the class already has from str
order ==
    /\ ea # None /\ eb # None
    /\ ecls = "Quality"
    /\ ecmp = None
    /\ ecmp' = Some([op |-> "order",
                     lt |-> lt(ea[1].value, eb[1].value),
                     gt |-> str_gt(ea[1], eb[1]),
                     le |-> str_le(ea[1], eb[1]),
                     ge |-> str_ge(ea[1], eb[1])])
    /\ UNCHANGED <<ecls, ea, eb, clientVars, quoteVars, qualityVars, certVars, itemVars>>

EnumNext == compare \/ order

SpecEnum == EnumInit /\ [][EnumNext]_vars

-----------------------------------------------------------------------------
(* C13: equality and keying of enumeration values *)

Compared == ecmp # None /\ ecmp[1].op = "compare"

\* C13: two values of an enumeration compare equal exactly when they have the same
\* wire string, so two distinct members are never equal, and values that are equal
\* hash equal
C13_EqualityByWireString ==
    Compared => /\ ecmp[1].eq <=> (ea[1].value = eb[1].value)
                /\ ecmp[1].ne <=> (ea[1].value # eb[1].value)
                /\ ecmp[1].eq => ecmp[1].hash_eq

-----------------------------------------------------------------------------
(* C15: the comparison operators of Quality *)

Ordered == ecmp # None /\ ecmp[1].op = "order"

\* C15: for all Quality values a and b, a > b exactly when b < a, a <= b exactly when
\* a < b or a is b, and a >= b exactly when b < a or a is b, in the declaration
\* order that < uses
C15_ConsistentTotalOrder ==
    Ordered =>
        LET a == ea[1]
            b == eb[1]
        IN  /\ ecmp[1].lt <=> (int(a.value) < int(b.value))
            /\ ecmp[1].gt <=> lt(b.value, a.value)
            /\ ecmp[1].le <=> (lt(a.value, b.value) \/ is(a, b))
            /\ ecmp[1].ge <=> (lt(b.value, a.value) \/ is(a, b))

-----------------------------------------------------------------------------
(* client.py: request() calls of two coroutines on one session *)

\* recv() called while another coroutine waits in recv() on the same handle: the
\* transport may refuse the second waiter, and request() propagates the failure
recv_busy(c) ==
    /\ task[c].pc = "recv"
    /\ \E d \in Callers \ {c} : task[d].pc = "recv" /\ task[d].h = task[c].h
    /\ task' = [task EXCEPT ![c] = Done(task[c].op, task[c].h, task[c].k, "RuntimeError",
                                       NoResponse)]
    /\ UNCHANGED <<password, ws, conns, quoteVars, qualityVars, certVars, itemVars, enumVars>>

\* the session is opened once and closed by one coroutine; request() is called by
\* both, each whenever it is not itself suspended in a call
OverlapNext ==
    \/ ws = NoWs /\ aenter(MainCaller)
    \/ aexit(MainCaller)
    \/ \E c \in Callers : \E rq \in Requests : request(c, rq[1], rq[2])
    \/ \E c \in Callers : recv(c)
    \/ \E c \in Callers : recv_busy(c)
    \/ \E h \in Handles : server(h)

SpecOverlap == Init /\ [][OverlapNext]_vars

-----------------------------------------------------------------------------
(* C14: overlapping request() calls *)

\* coroutine d is suspended in request() on the session's open handle, which can
\* take another frame, and coroutine c is free to make a call
Overlappable(c, d) ==
    /\ c # d
    /\ task[c].pc = "idle"
    /\ task[d].pc = "recv" /\ task[d].op = "request"
    /\ ws # NoWs /\ task[d].h = ws
    /\ IsOpen(conns, ws)
    /\ Len(conns[ws].sent) < MaxFrames

\* C14: the client has no lock around the exchange: while one request() is waiting
\* for its response, a second request() on the same connected session is not held
\* back; it sends its command at once and waits for a frame too
C14_NoInternalLocking ==
    \A c, d \in Callers :
        Overlappable(c, d) =>
            \A rq \in Requests :
                ENABLED (/\ request(c, rq[1], rq[2])
                         /\ task'[c].pc = "recv"
                         /\ Len(conns'[ws].sent) = Len(conns[ws].sent) + 1)

\* two overlapping request() calls, and one has returned the response to the
\* command of the other
C14_Witness ==
    \E c, d \in Callers :
        /\ c # d
        /\ task[c].pc = "idle" /\ task[c].op = "request" /\ task[c].out = "ok"
        /\ task[d].op = "request" /\ task[d].h = task[c].h
        /\ task[d].k # task[c].k
        /\ task[c].res.seq = task[d].k
        /\ task[c].res.re = conns[task[c].h].sent[task[d].k]
        /\ task[c].res.re # conns[task[c].h].sent[task[c].k]

====
